---- MODULE Spec2Model ----
(***************************************************************************)
(* Model of boost_unordered_flat_map_stats.cpp: the quadratic prober, the  *)
(* two simulated open-addressing tables (boost_map with 15-element groups  *)
(* and overflow bytes, abseil_map with a flat array scanned in 16-slot     *)
(* windows) and the stats_row driver that populates a table and replays    *)
(* the key stream.                                                         *)
(*                                                                         *)
(* A std::size_t hash is 64 bits wide.  TLC's integers are 32 bits, so a   *)
(* hash is written as four 16-bit limbs, least significant first:          *)
(*   <<w0, w1, w2, w3>>  stands for  w0 + 2^16*w1 + 2^32*w2 + 2^48*w3.     *)
(* Indexes, counters and sizes are small and are plain naturals.           *)
(***************************************************************************)
EXTENDS Integers, Sequences, FiniteSets, TLC

VARIABLES
  pb,        \* prober harness: the pow2_quadratic_prober object [pos, step]
  pb_mask,   \* prober harness: the mask handed to every next(mask)
  pb_seen,   \* prober harness: the values get() returned so far, in order
  pb_ret,    \* prober harness: what the last next(mask) returned
  variant,   \* which table a run works on: "boost", "abseil" or "none"
  groups,    \* boost_map::groups
  elements,  \* abseil_map::elements
  cursor,    \* how many keys of each key stream were handed to insert
  inserted,  \* the keys for which a call of insert returned true
  last,      \* the last call made on the table and what it returned
  hung,      \* a call was made that never returns
  outside,   \* the keys insert returned for that the table does not hold
  undefined, \* a call got outside the table in a way that is not followed
  row        \* stats_row: its locals, its generator and what it printed

prober_vars == <<pb, pb_mask, pb_seen, pb_ret>>

map_vars == <<variant, groups, elements, cursor, inserted, last, hung,
              outside, undefined>>

driver_vars == <<row>>

vars == <<pb, pb_mask, pb_seen, pb_ret,
          variant, groups, elements, cursor, inserted, last, hung,
          outside, undefined, row>>

----------------------------------------------------------------------------
(* Machine arithmetic on naturals and on 64-bit words.                     *)

Pow2(n) == 2 ^ n

\* a & b on naturals, bit by bit
RECURSIVE BitAndBits(_, _)
BitAndBits(a, b) ==
  IF a = 0 \/ b = 0 THEN 0
  ELSE (a % 2) * (b % 2) + 2 * BitAndBits(a \div 2, b \div 2)

\* the naturals 2^k - 1, whose bits are k ones
LowMasks == {2 ^ k - 1 : k \in 0..30}

\* a & b on naturals; against k low ones it is the remainder modulo 2^k
BitAnd(a, b) == IF b \in LowMasks THEN a % (b + 1) ELSE BitAndBits(a, b)

\* a | b on naturals
RECURSIVE BitOr(_, _)
BitOr(a, b) ==
  IF a = 0 THEN b
  ELSE IF b = 0 THEN a
  ELSE (IF a % 2 = 1 \/ b % 2 = 1 THEN 1 ELSE 0) + 2 * BitOr(a \div 2, b \div 2)

\* std::bit_width(x): the number of bits needed to write x, 0 for x = 0
RECURSIVE bit_width(_)
bit_width(x) == IF x = 0 THEN 0 ELSE 1 + bit_width(x \div 2)

\* sizeof(std::size_t)*CHAR_BIT
WordBits == 64

ZeroWord == <<0, 0, 0, 0>>

NumLimbs == Len(ZeroWord)

LimbBits == WordBits \div NumLimbs

LimbBase == Pow2(LimbBits)

IsWord(w) ==
  /\ w \in Seq(0..(LimbBase - 1))
  /\ Len(w) = NumLimbs

\* limb j of w, 0 above the top limb
LimbAt(w, j) == IF j \in 1..NumLimbs THEN w[j] ELSE 0

\* w >> s for a shift count 0 <= s < 64 (a defined shift)
ShiftRight(w, s) ==
  LET q == s \div LimbBits
      r == s % LimbBits
  IN  [i \in 1..NumLimbs |->
         (LimbAt(w, i + q) \div Pow2(r))
           + (LimbAt(w, i + q + 1) % Pow2(r)) * Pow2(LimbBits - r)]

\* the largest index the model writes down; every index at or above a
\* table's size is outside the table
MaxIndex == Pow2(30)

\* a word as a natural; a word too large to write is cut to MaxIndex
WordToIndex(w) ==
  IF w[3] = 0 /\ w[4] = 0 /\ w[2] < Pow2(14)
    THEN w[1] + LimbBase * w[2]
    ELSE MaxIndex

\* w * m modulo 2^64 for a natural m below 2^15
WordTimesNat(w, m) ==
  LET t1 == w[1] * m
      t2 == w[2] * m + t1 \div LimbBase
      t3 == w[3] * m + t2 \div LimbBase
      t4 == w[4] * m + t3 \div LimbBase
  IN  <<t1 % LimbBase, t2 % LimbBase, t3 % LimbBase, t4 % LimbBase>>

\* w & m for a natural m below 2^30
WordAndNat(w, m) ==
  BitAnd(w[1], m % LimbBase) + LimbBase * BitAnd(w[2], m \div LimbBase)

----------------------------------------------------------------------------
(* pow2_quadratic_prober                                                   *)

\* pow2_quadratic_prober(pos_): pos{pos_}, step=0
prober_init(pos_) == [pos |-> pos_, step |-> 0]

\* get()
prober_get(p) == p.pos

\* Mutant of prober_advance: the position is moved by the step before the
\* step is incremented
prober_advance_late_step(p, mask) ==
  [pos |-> BitAnd(p.pos + p.step, mask), step |-> p.step + 1]

\* The prober after next(mask): step+=1; pos=(pos+step)&mask
prober_advance(p, mask) ==
  [pos |-> BitAnd(p.pos + (p.step + 1), mask), step |-> p.step + 1]

\* Mutant of prober_next: the call reports that the cycle is exhausted
prober_next_exhausted(p, mask) == prober_advance(p, mask).step > mask

\* What next(mask) returns: step<=mask, with the incremented step
prober_next(p, mask) == prober_advance(p, mask).step <= mask

----------------------------------------------------------------------------
(* find_info, and what a call of find or insert comes to.                  *)

\* Mutant of find_info: the home group counts as a hop
find_info_one_hop == [num_hops |-> 1, num_cmps |-> 0]

\* find_info: num_hops=0, num_cmps=0
find_info == [num_hops |-> 0, num_cmps |-> 0]

\* find_info::operator+=
find_info_add(a, x) ==
  [num_hops |-> a.num_hops + x.num_hops, num_cmps |-> a.num_cmps + x.num_cmps]

\* A call of find that returned {info, found}
FindReturned(info, found) ==
  [returns |-> TRUE, fault |-> FALSE, found |-> found, info |-> info]

\* A call of find whose loop goes on for ever
FindDiverges(info) ==
  [returns |-> FALSE, fault |-> FALSE, found |-> FALSE, info |-> info]

\* A call of find that read outside the table's storage in a way that
\* is not followed further: it may trap, or go on in any way
FindFaults(info) ==
  [returns |-> FALSE, fault |-> TRUE, found |-> FALSE, info |-> info]

----------------------------------------------------------------------------
(* boost_map                                                               *)

\* boost_map::N
boost_N == 15

\* boost_map::group: elements (value-initialized), n=0, overflow=0
boost_group ==
  [elements |-> [i \in 1..boost_N |-> ZeroWord], n |-> 0, overflow |-> 0]

\* boost_map(capacity): groups{capacity}
boost_map(capacity) == [g \in 1..capacity |-> boost_group]

\* reduced_hash: the low byte, with 0 and 1 moved to 8 and 9
reduced_hash(hash) ==
  LET h == hash[1] % 256
  IN  IF h = 0 THEN 8 ELSE IF h = 1 THEN 9 ELSE h

\* boost_map::shift for a table of ngroups groups
boost_shift(ngroups) == WordBits - bit_width(ngroups - 1)

\* What a build can make of hash>>shift when shift is 64, the width of
\* the word, where the language leaves the shift undefined: "masked", the
\* shift instruction takes its count modulo 64 (x86-64, AArch64) and the
\* result is the hash itself; "zero", every bit is shifted out.
WideShifts == {"masked", "zero"}

\* position_for: hash>>shift, in a build whose shifts by the full width
\* behave as wide says.  The result is an index, cut off at MaxIndex.
boost_position_for(hash, ngroups, wide) ==
  IF boost_shift(ngroups) < WordBits
    THEN WordToIndex(ShiftRight(hash, boost_shift(ngroups)))
  ELSE IF wide = "masked"
    THEN WordToIndex(ShiftRight(hash, boost_shift(ngroups) % WordBits))
  ELSE 0

\* Mutant of overflow_bit: every key uses the lowest bit
overflow_bit_lowest(hash) == 1

\* static_cast<unsigned char>(1<<(hash%8))
overflow_bit(hash) == Pow2(hash[1] % 8)

\* std::find(first, first+n, hash): the index of the first element equal to
\* hash among the first n, n+1 when there is none
RECURSIVE find_in_group(_, _, _, _)
find_in_group(elems, n, hash, i) ==
  IF i > n THEN n + 1
  ELSE IF elems[i] = hash THEN i
  ELSE find_in_group(elems, n, hash, i + 1)

\* std::count_if(first, it, ...): the elements before index it whose
\* reduced hash is that of hash
count_reduced(elems, it, hash) ==
  Cardinality({i \in 1..(it - 1) : reduced_hash(elems[i]) = reduced_hash(hash)})

\* Mutant of boost_find_loop: the loop does not stop at a group whose
\* overflow bit for the hash is unset
RECURSIVE boost_find_loop_no_stop(_, _, _, _)
boost_find_loop_no_stop(gs, hash, p, info) ==
  LET mask == Len(gs) - 1
  IN  IF p.step > mask THEN FindDiverges(info)
      ELSE IF prober_get(p) >= Len(gs) THEN FindFaults(info)
      ELSE
        LET g    == gs[prober_get(p) + 1]
            it   == find_in_group(g.elements, g.n, hash, 1)
            cmps == info.num_cmps + count_reduced(g.elements, it, hash)
        IN  IF it # g.n + 1
              THEN FindReturned([info EXCEPT !.num_cmps = cmps + 1], TRUE)
            ELSE boost_find_loop_no_stop(gs, hash, prober_advance(p, mask),
                   [num_hops |-> info.num_hops + 1, num_cmps |-> cmps])

\* The loop of boost_map::find from prober state p with info accumulated.
\* The table does not change during the loop and the prober visits every
\* group in its first mask+1 positions, so once the prober has reported
\* the end of its cycle (step > mask) every further iteration repeats an
\* earlier one and the call never returns.
RECURSIVE boost_find_loop(_, _, _, _)
boost_find_loop(gs, hash, p, info) ==
  LET mask == Len(gs) - 1
  IN  IF p.step > mask THEN FindDiverges(info)
      ELSE IF prober_get(p) >= Len(gs) THEN FindFaults(info)
      ELSE
        LET g    == gs[prober_get(p) + 1]
            it   == find_in_group(g.elements, g.n, hash, 1)
            cmps == info.num_cmps + count_reduced(g.elements, it, hash)
        IN  IF it # g.n + 1
              THEN FindReturned([info EXCEPT !.num_cmps = cmps + 1], TRUE)
            ELSE IF BitAnd(g.overflow, overflow_bit(hash)) = 0
              THEN FindReturned([info EXCEPT !.num_cmps = cmps], FALSE)
            ELSE boost_find_loop(gs, hash, prober_advance(p, mask),
                   [num_hops |-> info.num_hops + 1, num_cmps |-> cmps])

\* boost_map::find, with pos the value position_for(hash) gave
boost_find(gs, hash, pos) ==
  boost_find_loop(gs, hash, prober_init(pos), find_info)

\* A call of insert that returned ret and left the groups gs
InsertReturned(gs, ret) ==
  [returns |-> TRUE, fault |-> FALSE, ret |-> ret, table |-> gs]

\* A call of insert whose loop goes on for ever, the groups being gs
InsertDiverges(gs) ==
  [returns |-> FALSE, fault |-> FALSE, ret |-> FALSE, table |-> gs]

\* A call of insert that read or wrote outside the table's storage in a
\* way that is not followed further: it may trap, or go on in any way
InsertFaults(gs) ==
  [returns |-> FALSE, fault |-> TRUE, ret |-> FALSE, table |-> gs]

\* Mutant of boost_insert_loop: a full group is passed without setting
\* its overflow bit
RECURSIVE boost_insert_loop_nomark(_, _, _)
boost_insert_loop_nomark(gs, hash, p) ==
  LET mask == Len(gs) - 1
  IN  IF p.step > mask THEN InsertDiverges(gs)
      ELSE IF prober_get(p) >= Len(gs) THEN InsertFaults(gs)
      ELSE
        LET i == prober_get(p) + 1
            g == gs[i]
        IN  IF g.n < boost_N
              THEN InsertReturned(
                     [gs EXCEPT ![i] =
                        [g EXCEPT !.elements[g.n + 1] = hash, !.n = g.n + 1]],
                     TRUE)
              ELSE boost_insert_loop_nomark(gs, hash, prober_advance(p, mask))

\* Mutant of boost_insert_loop: the loop gives up and returns false when
\* the prober's cycle is exhausted
RECURSIVE boost_insert_loop_gives_up(_, _, _)
boost_insert_loop_gives_up(gs, hash, p) ==
  LET mask == Len(gs) - 1
  IN  IF p.step > mask THEN InsertReturned(gs, FALSE)
      ELSE IF prober_get(p) >= Len(gs) THEN InsertFaults(gs)
      ELSE
        LET i == prober_get(p) + 1
            g == gs[i]
        IN  IF g.n < boost_N
              THEN InsertReturned(
                     [gs EXCEPT ![i].elements[g.n + 1] = hash,
                                ![i].n = g.n + 1],
                     TRUE)
              ELSE boost_insert_loop_gives_up(
                     [gs EXCEPT ![i].overflow =
                        BitOr(g.overflow, overflow_bit(hash))],
                     hash, prober_advance(p, mask))

\* Mutant of boost_insert_loop: the overflow bit is set on the group the
\* key is stored in as well
RECURSIVE boost_insert_loop_mark_home(_, _, _)
boost_insert_loop_mark_home(gs, hash, p) ==
  LET mask == Len(gs) - 1
  IN  IF p.step > mask THEN InsertDiverges(gs)
      ELSE IF prober_get(p) >= Len(gs) THEN InsertFaults(gs)
      ELSE
        LET i == prober_get(p) + 1
            g == gs[i]
            marked == [gs EXCEPT ![i].overflow =
                         BitOr(g.overflow, overflow_bit(hash))]
        IN  IF g.n < boost_N
              THEN InsertReturned(
                     [marked EXCEPT ![i].elements[g.n + 1] = hash,
                                    ![i].n = g.n + 1],
                     TRUE)
              ELSE boost_insert_loop_mark_home(marked, hash,
                                               prober_advance(p, mask))

\* The loop of boost_map::insert from prober state p.  When the prober
\* has reported the end of its cycle every group was full and carries the
\* hash's overflow bit: further iterations change nothing and the call
\* never returns.
RECURSIVE boost_insert_loop(_, _, _)
boost_insert_loop(gs, hash, p) ==
  LET mask == Len(gs) - 1
  IN  IF p.step > mask THEN InsertDiverges(gs)
      ELSE IF prober_get(p) >= Len(gs) THEN InsertFaults(gs)
      ELSE
        LET i == prober_get(p) + 1
            g == gs[i]
        IN  IF g.n < boost_N
              THEN InsertReturned(
                     [gs EXCEPT ![i] =
                        [g EXCEPT !.elements[g.n + 1] = hash, !.n = g.n + 1]],
                     TRUE)
              ELSE boost_insert_loop(
                     [gs EXCEPT ![i].overflow =
                        BitOr(g.overflow, overflow_bit(hash))],
                     hash, prober_advance(p, mask))

\* Mutant of boost_insert: the key is not looked up first
boost_insert_unchecked(gs, hash, pos) ==
  boost_insert_loop(gs, hash, prober_init(pos))

\* boost_map::insert, with pos the value position_for(hash) gave
boost_insert(gs, hash, pos) ==
  LET f == boost_find(gs, hash, pos)
  IN  IF f.fault THEN InsertFaults(gs)
      ELSE IF ~f.returns THEN InsertDiverges(gs)
      ELSE IF f.found THEN InsertReturned(gs, FALSE)
      ELSE boost_insert_loop(gs, hash, prober_init(pos))

\* sizeof(group) in words and in bytes where a word has 8 bytes: 15
\* elements, n, and overflow padded to a word
group_words == boost_N + 2

word_bytes == WordBits \div 8

sizeof_group == word_bytes * group_words

\* a natural below 2^30 as a word
NatWord(k) == <<k % LimbBase, (k \div LimbBase) % LimbBase, 0, 0>>

\* the words of group g as they lie in memory (padding bytes zero)
words_of_group(g) ==
  [i \in 1..group_words |->
     IF i <= boost_N THEN g.elements[i]
     ELSE IF i = boost_N + 1 THEN NatWord(g.n)
     ELSE NatWord(g.overflow)]

\* groups[pos] with pos >= groups.size() is undefined.  A build adds
\* pos*sizeof(group) to the address of groups[0] modulo 2^64.  With one
\* group in the table and pos the hash: the distance in words from
\* groups[0] to groups[pos] when the two share a word (0: they are the
\* same group), and group_words when they share none.
group_offset(hash) ==
  LET b == WordTimesNat(hash, sizeof_group)
  IN  IF b[2] = 0 /\ b[3] = 0 /\ b[4] = 0 /\ b[1] < sizeof_group
        THEN b[1] \div word_bytes
      ELSE IF /\ b[2] = LimbBase - 1 /\ b[3] = LimbBase - 1
              /\ b[4] = LimbBase - 1
              /\ b[1] > LimbBase - sizeof_group
        THEN 0 - ((LimbBase - b[1]) \div word_bytes)
      ELSE group_words

\* What the memory that is not the table's holds where a call on hash
\* reads a group, by what the call can tell of it: the first decoys words
\* have hash's reduced hash without being hash (none, or all N), hash
\* follows them or not, the word of n (0, N, or the words of a group, when
\* the loop of find reads the words of n and overflow as elements), and
\* the word of overflow (no bit set or every bit set; for the n above N
\* the hash itself or a decoy).
StrayClasses ==
  {c \in [decoys : {0, boost_N},
          match  : BOOLEAN,
          n      : {0, boost_N, group_words},
          over   : {"clear", "marked", "key", "decoy"}] :
     /\ c.match => c.decoys < boost_N
     /\ c.over \in {"key", "decoy"} <=> c.n > boost_N}

\* a word other than hash with hash's reduced hash, and one with another
\* reduced hash
Decoy(hash) == [hash EXCEPT ![4] = (hash[4] + 1) % LimbBase]

Other(hash) ==
  [hash EXCEPT ![1] = (hash[1] - (hash[1] % 256)) + (((hash[1] % 256) + 2) % 256)]

\* the words a call on hash reads in memory of class c
StrayWords(c, hash) ==
  [i \in 1..group_words |->
     IF i = boost_N + 1 THEN NatWord(c.n)
     ELSE IF i = boost_N + 2
       THEN (IF c.over = "clear" THEN ZeroWord
             ELSE IF c.over = "marked" THEN NatWord(255)
             ELSE IF c.over = "key" THEN hash
             ELSE Decoy(hash))
     ELSE IF i <= c.decoys THEN Decoy(hash)
     ELSE IF i = c.decoys + 1 /\ c.match THEN hash
     ELSE Other(hash)]

\* the words of groups[pos] when it lies w words from groups[0]: those it
\* shares with the table's group, and the words o outside the table
stray_view(gs, o, w) ==
  [i \in 1..group_words |->
     IF i + w \in 1..group_words THEN words_of_group(gs[1])[i + w] ELSE o[i]]

\* the words v read as a group; when n is above N the loop of find reads
\* on into the words of n and overflow
group_of_words(v) ==
  [elements |-> v,
   n        |-> WordToIndex(v[boost_N + 1]),
   overflow |-> v[boost_N + 2][1] % 256]

\* the words v after the loop of insert visited them as a group:
\* elements[n++] = hash, or overflow |= bit
stray_written(v, hash) ==
  LET g == group_of_words(v)
  IN  IF g.n < boost_N
        THEN [v EXCEPT ![g.n + 1] = hash, ![boost_N + 1] = NatWord(g.n + 1)]
        ELSE [v EXCEPT ![boost_N + 2][1] =
                (@ - (@ % 256)) + BitOr(g.overflow, overflow_bit(hash))]

\* the table after the words v of groups[pos], w words from groups[0],
\* were written: the words the two share are those of v
table_after(gs, v, w) ==
  LET t == [j \in 1..group_words |->
              IF j - w \in 1..group_words THEN v[j - w]
              ELSE words_of_group(gs[1])[j]]
  IN  [gs EXCEPT ![1] =
         [elements |-> [i \in 1..boost_N |-> t[i]],
          n        |-> WordToIndex(t[boost_N + 1]),
          overflow |-> t[boost_N + 2][1] % 256]]

\* the written table is no table the model can hold: n above N, or
\* padding bytes that are not zero
table_broken(gs, v, w) ==
  LET g == table_after(gs, v, w)[1]
  IN  \/ g.n > boost_N
      \/ words_of_group(g) # [j \in 1..group_words |->
                                IF j - w \in 1..group_words THEN v[j - w]
                                ELSE words_of_group(gs[1])[j]]

\* boost_map::find when groups[position_for(hash)] is not a group of the
\* table but reads as g.  next(mask) then yields a position inside the
\* table (with one group, group 0 at every later step), where the loop
\* goes on with one hop counted.  An n beyond the words of the group is
\* not followed.
stray_find(gs, g, hash) ==
  IF g.n > group_words THEN FindFaults(find_info)
  ELSE
    LET it   == find_in_group(g.elements, g.n, hash, 1)
        cmps == count_reduced(g.elements, it, hash)
    IN  IF it # g.n + 1
          THEN FindReturned([num_hops |-> 0, num_cmps |-> cmps + 1], TRUE)
        ELSE IF BitAnd(g.overflow, overflow_bit(hash)) = 0
          THEN FindReturned([num_hops |-> 0, num_cmps |-> cmps], FALSE)
        ELSE boost_find_loop(gs, hash, prober_init(0),
                             [num_hops |-> 1, num_cmps |-> cmps])

\* boost_map::insert on a table of one group when position_for(hash) is
\* outside the table in the find of line 56 (far1) and in the loop of line
\* 57 (far2), each evaluating hash>>shift on its own; o are the words
\* outside the table and w the distance of groups[pos] from groups[0]
stray_insert(gs, o, w, hash, far1, far2) ==
  LET v == stray_view(gs, o, w)
      g == group_of_words(v)
      f == IF far1 THEN stray_find(gs, g, hash) ELSE boost_find(gs, hash, 0)
      u == stray_written(v, hash)
  IN  IF f.fault THEN InsertFaults(gs)
      ELSE IF ~f.returns THEN InsertDiverges(gs)
      ELSE IF f.found THEN InsertReturned(gs, FALSE)
      ELSE IF ~far2 THEN boost_insert_loop(gs, hash, prober_init(0))
      ELSE IF g.n > group_words \/ table_broken(gs, u, w)
        THEN InsertFaults(gs)
      ELSE IF g.n < boost_N THEN InsertReturned(table_after(gs, u, w), TRUE)
      ELSE boost_insert_loop(table_after(gs, u, w), hash, prober_init(0))

\* Mutant of boost_pr_group_full: the groups with room are counted
boost_pr_group_room(gs) ==
  <<Cardinality({i \in 1..Len(gs) : gs[i].n < boost_N}), Len(gs)>>

\* boost_map::pr_group_full: num_full over groups.size(), as the fraction
\* <<numerator, denominator>> (both are exact as floats)
boost_pr_group_full(gs) ==
  <<Cardinality({i \in 1..Len(gs) : gs[i].n = boost_N}), Len(gs)>>

----------------------------------------------------------------------------
(* abseil_map                                                              *)

\* abseil_map::N
abseil_N == 16

\* std::nullopt, and an engaged std::optional<std::size_t>
nullopt == [has |-> FALSE, val |-> ZeroWord]

some(hash) == [has |-> TRUE, val |-> hash]

\* abseil_map(capacity): elements(capacity*N, std::nullopt)
abseil_map(capacity) == [i \in 1..(capacity * abseil_N) |-> nullopt]

\* abseil_map::position_for: (hash>>7)&(elements.size()-1)
abseil_position_for(es, hash) == WordAndNat(ShiftRight(hash, 7), Len(es) - 1)

\* The slot element_at(pos) names: elements[pos&(elements.size()-1)]
element_index(es, pos) == BitAnd(pos, Len(es) - 1) + 1

\* element_at(pos)
element_at(es, pos) == es[element_index(es, pos)]

\* The private find(first, last, x): the first position in [first, lst)
\* whose element equals x, lst when there is none
RECURSIVE abseil_find_pos(_, _, _, _)
abseil_find_pos(es, first, lst, x) ==
  IF first = lst THEN first
  ELSE IF element_at(es, first) = x THEN first
  ELSE abseil_find_pos(es, first + 1, lst, x)

\* Mutant of num_cmps: the count ends at the first empty slot
num_cmps_until_empty(es, first, lst, hash) ==
  Cardinality({q \in first..(abseil_find_pos(es, first, lst, nullopt) - 1) :
    WordAndNat(element_at(es, q).val, 127) = WordAndNat(hash, 127)})

\* num_cmps(first, last, hash): the engaged elements in [first, last)
\* whose low 7 bits are those of hash
num_cmps(es, first, lst, hash) ==
  Cardinality({q \in first..(lst - 1) :
    /\ element_at(es, q).has
    /\ WordAndNat(element_at(es, q).val, 127) = WordAndNat(hash, 127)})

\* Mutant of abseil_find_loop: a window is counted as a hop when the loop
\* enters it
RECURSIVE abseil_find_loop_hop_on_entry(_, _, _, _, _)
abseil_find_loop_hop_on_entry(es, hash, off, p, info) ==
  LET mask == Len(es) \div abseil_N - 1
  IN  IF p.step > mask THEN FindDiverges(info)
      ELSE
        LET pos0 == prober_get(p) * abseil_N + off
            pos1 == abseil_find_pos(es, pos0, pos0 + abseil_N, some(hash))
            cmps == info.num_cmps + num_cmps(es, pos0, pos1, hash)
            hops == info.num_hops + 1
        IN  IF pos1 # pos0 + abseil_N
              THEN FindReturned([num_hops |-> hops, num_cmps |-> cmps + 1],
                                TRUE)
            ELSE IF abseil_find_pos(es, pos0, pos0 + abseil_N, nullopt)
                      # pos0 + abseil_N
              THEN FindReturned([num_hops |-> hops, num_cmps |-> cmps], FALSE)
            ELSE abseil_find_loop_hop_on_entry(es, hash, off,
                   prober_advance(p, mask),
                   [num_hops |-> hops, num_cmps |-> cmps])

\* The loop of abseil_map::find for offset off, from prober state p.  As
\* in boost_find_loop, a loop that outlives the prober's cycle in the
\* unchanged table never returns.
RECURSIVE abseil_find_loop(_, _, _, _, _)
abseil_find_loop(es, hash, off, p, info) ==
  LET mask == Len(es) \div abseil_N - 1
  IN  IF p.step > mask THEN FindDiverges(info)
      ELSE
        LET pos0 == prober_get(p) * abseil_N + off
            pos1 == abseil_find_pos(es, pos0, pos0 + abseil_N, some(hash))
            cmps == info.num_cmps + num_cmps(es, pos0, pos1, hash)
        IN  IF pos1 # pos0 + abseil_N
              THEN FindReturned([info EXCEPT !.num_cmps = cmps + 1], TRUE)
            ELSE IF abseil_find_pos(es, pos0, pos0 + abseil_N, nullopt)
                      # pos0 + abseil_N
              THEN FindReturned([info EXCEPT !.num_cmps = cmps], FALSE)
            ELSE abseil_find_loop(es, hash, off, prober_advance(p, mask),
                   [num_hops |-> info.num_hops + 1, num_cmps |-> cmps])

\* abseil_map::find
abseil_find(es, hash) ==
  LET pos == abseil_position_for(es, hash)
  IN  abseil_find_loop(es, hash, pos % abseil_N,
                       prober_init(pos \div abseil_N), find_info)

\* Mutant of abseil_insert_loop: the window scanned for an empty slot
\* starts at the group's first slot, not at the key's offset
RECURSIVE abseil_insert_loop_aligned(_, _, _, _)
abseil_insert_loop_aligned(es, hash, off, p) ==
  LET mask == Len(es) \div abseil_N - 1
  IN  IF p.step > mask THEN InsertDiverges(es)
      ELSE
        LET pos0 == prober_get(p) * abseil_N
            pos1 == abseil_find_pos(es, pos0, pos0 + abseil_N, nullopt)
        IN  IF pos1 # pos0 + abseil_N
              THEN InsertReturned(
                     [es EXCEPT ![element_index(es, pos1)] = some(hash)], TRUE)
              ELSE abseil_insert_loop_aligned(es, hash, off,
                                              prober_advance(p, mask))

\* Mutant of abseil_insert_loop: the key is stored in the last empty slot
\* of the window
RECURSIVE abseil_insert_loop_last_empty(_, _, _, _)
abseil_insert_loop_last_empty(es, hash, off, p) ==
  LET mask == Len(es) \div abseil_N - 1
  IN  IF p.step > mask THEN InsertDiverges(es)
      ELSE
        LET pos0 == prober_get(p) * abseil_N + off
            empties == {q \in pos0..(pos0 + abseil_N - 1) :
                          element_at(es, q) = nullopt}
        IN  IF empties # {}
              THEN InsertReturned(
                     [es EXCEPT ![element_index(es,
                        CHOOSE q \in empties : \A x \in empties : x <= q)] =
                          some(hash)], TRUE)
              ELSE abseil_insert_loop_last_empty(es, hash, off,
                                                 prober_advance(p, mask))

\* The loop of abseil_map::insert for offset off, from prober state p.
\* The windows of one offset cover every slot, so a loop that outlives
\* the prober's cycle found every slot taken and never returns.
RECURSIVE abseil_insert_loop(_, _, _, _)
abseil_insert_loop(es, hash, off, p) ==
  LET mask == Len(es) \div abseil_N - 1
  IN  IF p.step > mask THEN InsertDiverges(es)
      ELSE
        LET pos0 == prober_get(p) * abseil_N + off
            pos1 == abseil_find_pos(es, pos0, pos0 + abseil_N, nullopt)
        IN  IF pos1 # pos0 + abseil_N
              THEN InsertReturned(
                     [es EXCEPT ![element_index(es, pos1)] = some(hash)], TRUE)
              ELSE abseil_insert_loop(es, hash, off, prober_advance(p, mask))

\* Mutant of abseil_insert: the key is not looked up first
abseil_insert_unchecked(es, hash) ==
  LET pos == abseil_position_for(es, hash)
  IN  abseil_insert_loop(es, hash, pos % abseil_N,
                         prober_init(pos \div abseil_N))

\* abseil_map::insert
abseil_insert(es, hash) ==
  LET f   == abseil_find(es, hash)
      pos == abseil_position_for(es, hash)
  IN  IF ~f.returns THEN InsertDiverges(es)
      ELSE IF f.found THEN InsertReturned(es, FALSE)
      ELSE abseil_insert_loop(es, hash, pos % abseil_N,
                              prober_init(pos \div abseil_N))

\* Mutant of abseil_pr_group_full: one window per group, starting at the
\* group's first slot, over the number of groups
abseil_pr_group_full_per_group(es) ==
  <<Cardinality({g \in 0..(Len(es) \div abseil_N - 1) :
      abseil_find_pos(es, g * abseil_N, g * abseil_N + abseil_N, nullopt)
        = g * abseil_N + abseil_N}),
    Len(es) \div abseil_N>>

\* abseil_map::pr_group_full: num_full over elements.size(), as the
\* fraction <<numerator, denominator>>
abseil_pr_group_full(es) ==
  <<Cardinality({pos \in 0..(Len(es) - 1) :
      abseil_find_pos(es, pos, pos + abseil_N, nullopt) = pos + abseil_N}),
    Len(es)>>

----------------------------------------------------------------------------
(* The keys a run hands to the tables.  The key source of the program is   *)
(* a pseudo-random generator; here a run draws its keys from a few fixed   *)
(* streams, in any interleaving, each stream in its own order.             *)

\* a boost_map has 2^1 .. 2^MaxLogCap groups; an abseil_map, which has 16
\* slots where a boost_map has one group, 2^0 .. 2^(MaxLogCap-1) windows'
\* worth of slots
MaxLogCap == 2

\* keys in a long stream: one more than fills a boost_map group, as many
\* as fill an abseil_map window
StreamLen == 16

\* keys in a short stream
ShortLen == 2

\* A key whose top bits select group home of a boost_map of 2^logcap
\* groups, with second limb mid and low limb low
BoostKey(logcap, home, mid, low) ==
  <<low, mid, 0, home * Pow2(LimbBits - logcap)>>

\* A key that abseil_map::position_for sends to pos (below 2^9), with low
\* 7 bits tag and with hi in the bits above
AbseilKey(pos, tag, hi) == <<pos * 128 + tag, hi, 0, hi>>

\* Keys h for which h*sizeof(group) is 8, -8 and 0 modulo 2^64:
\* 0x10f0f0f0f0f0f0f1, 0xef0f0f0f0f0f0f0f and 2^61.  With a table of one
\* group, groups[h] lies one word after groups[0], one word before it, and
\* on it.
NearAfterKey == <<61681, 61680, 61680, 4336>>

NearBeforeKey == <<3855, 3855, 3855, 61199>>

AliasKey == <<0, 0, 0, 8192>>

\* The streams for a boost_map of 2^logcap groups: a long stream for the
\* first group (low bytes 0, 1, 2, ...: reduced hashes 8, 9, 2, ... and
\* every residue mod 8) and a long stream for the last group (low bytes
\* 15, 14, ..., so that its late keys share low byte and residue with
\* early keys of the first stream).  A table of one group has the first
\* stream only, its first group being its last, and NearAfterKey for its
\* last key.
BoostStreams(logcap) ==
  IF logcap = 0
    THEN << [i \in 1..StreamLen |->
               IF i = StreamLen THEN NearAfterKey
               ELSE BoostKey(logcap, 0, 0, i - 1)] >>
    ELSE << [i \in 1..StreamLen |-> BoostKey(logcap, 0, 0, i - 1)],
            [i \in 1..StreamLen |->
               BoostKey(logcap, Pow2(logcap) - 1, 1,
                        256 + ((StreamLen + 1 - i) % 16))] >>

\* Keys no stream holds, for lookups of absent keys: residues 7 and 3 in
\* the first group, residue 1 in the last; for a table of one group
\* AliasKey and NearBeforeKey are the first two
BoostAbsent(logcap) ==
  << IF logcap = 0 THEN AliasKey ELSE BoostKey(logcap, 0, 7, 1024 + 7),
     IF logcap = 0 THEN NearBeforeKey ELSE BoostKey(logcap, 0, 7, 1024 + 3),
     BoostKey(logcap, Pow2(logcap) - 1, 7, 1024 + 1) >>

\* The streams for an abseil_map of 2^logcap windows' worth of slots: a
\* long stream at position 3 (offset 3 of window 0), a short stream at
\* the last but one slot (its window wraps around the end of the array)
\* and a single key at position 5.
AbseilStreams(logcap) ==
  << [i \in 1..StreamLen |-> AbseilKey(3, i % 4, i)],
     [i \in 1..ShortLen |->
        AbseilKey(Pow2(logcap) * abseil_N - 2, i % 2, 100 + i)],
     << AbseilKey(5, 1, 200) >> >>

\* Absent keys at positions 3 and 5 and at the last slot
AbseilAbsent(logcap) ==
  << AbseilKey(3, 1, 300),
     AbseilKey(5, 1, 300),
     AbseilKey(Pow2(logcap) * abseil_N - 1, 0, 301) >>

\* the streams and absent keys of every table size, worked out once
BoostStreamsOf == [k \in 0..(MaxLogCap + 1) |-> BoostStreams(k)]

BoostAbsentOf == [k \in 0..(MaxLogCap + 1) |-> BoostAbsent(k)]

AbseilStreamsOf == [k \in 0..(MaxLogCap + 1) |-> AbseilStreams(k)]

AbseilAbsentOf == [k \in 0..(MaxLogCap + 1) |-> AbseilAbsent(k)]

SeqRange(q) == {q[i] : i \in 1..Len(q)}

\* log2 of the number of groups of the run's table
LogCap ==
  IF variant = "boost" THEN bit_width(Len(groups) - 1)
  ELSE bit_width(Len(elements) \div abseil_N - 1)

Streams ==
  IF variant = "boost" THEN BoostStreamsOf[LogCap] ELSE AbseilStreamsOf[LogCap]

AbsentKeys ==
  IF variant = "boost" THEN SeqRange(BoostAbsentOf[LogCap])
  ELSE SeqRange(AbseilAbsentOf[LogCap])

\* every key of the streams, and every key a run may look up
StreamKeys == UNION {SeqRange(Streams[s]) : s \in 1..Len(Streams)}

AllKeys == StreamKeys \cup AbsentKeys

\* the keys handed to insert so far
Handed ==
  UNION {{Streams[s][i] : i \in 1..cursor[s]} : s \in 1..Len(Streams)}

\* the keys a run looks up or inserts a second time: the last key of the
\* first stream and the first absent key
ProbeKeys ==
  IF variant = "boost"
    THEN { BoostStreamsOf[LogCap][1][StreamLen], BoostAbsentOf[LogCap][1] }
    ELSE { AbseilStreamsOf[LogCap][1][StreamLen], AbseilAbsentOf[LogCap][1] }

----------------------------------------------------------------------------
(* Table harness: a table is constructed, then insert and find are called  *)
(* on it in any order.  A call that never returns ends the run.            *)

NoCall == [op |-> "none", hash |-> ZeroWord, ret |-> FALSE, info |-> find_info]

InsertCall(hash, ret) ==
  [op |-> "insert", hash |-> hash, ret |-> ret, info |-> find_info]

FindCall(hash, found, info) ==
  [op |-> "find", hash |-> hash, ret |-> found, info |-> info]

\* no stats_row is running
RowIdle == [pc |-> "idle"]

ProberIdle ==
  /\ pb = prober_init(0)
  /\ pb_mask = 0
  /\ pb_seen = <<>>
  /\ pb_ret = TRUE

MapIdle ==
  /\ variant = "none"
  /\ groups = <<>>
  /\ elements = <<>>
  /\ cursor = <<>>
  /\ inserted = {}
  /\ last = NoCall
  /\ hung = FALSE
  /\ outside = {}
  /\ undefined = FALSE
  /\ row = RowIdle

\* Construction of a boost_map of 2^k groups, 1 <= k <= MaxLogCap, or of
\* an abseil_map of 2^k * 16 slots, 0 <= k < MaxLogCap.  No shift by the
\* full width happens in these tables.  (A boost_map of one group shifts
\* by 64: that table is the subject of SpecOneGroup.)
MapInit ==
  /\ ProberIdle
  /\ \E k \in 0..MaxLogCap :
       \/ /\ k >= 1
          /\ variant = "boost"
          /\ groups = boost_map(Pow2(k))
          /\ elements = <<>>
          /\ cursor = [s \in 1..Len(BoostStreams(k)) |-> 0]
       \/ /\ k < MaxLogCap
          /\ variant = "abseil"
          /\ groups = <<>>
          /\ elements = abseil_map(Pow2(k))
          /\ cursor = [s \in 1..Len(AbseilStreams(k)) |-> 0]
  /\ inserted = {}
  /\ last = NoCall
  /\ hung = FALSE
  /\ outside = {}
  /\ undefined = FALSE
  /\ row = RowIdle

\* the values position_for(hash) can have: hash>>shift where the shift
\* is defined, and for a shift of 64 what either build makes of it, each
\* evaluation on its own
Homes(hash) ==
  {boost_position_for(hash, Len(groups), wide) : wide \in WideShifts}

\* position_for(hash) where the shift is defined
HomeOf(hash) == boost_position_for(hash, Len(groups), "masked")

\* how many keys a run is followed with that insert returned for and the
\* table does not hold
MaxOutside == 1

\* the words a call on hash can read outside the table: any, and after a
\* call left or found hash there, words that hold it
StrayReads(hash) ==
  {StrayWords(c, hash) :
     c \in {d \in StrayClasses :
              hash \in outside => (d.match /\ d.n = boost_N)}}

\* hash is among the first n elements of a group of gs
HeldIn(gs, hash) ==
  \E g \in 1..Len(gs) : \E i \in 1..gs[g].n : gs[g].elements[i] = hash

\* the outcomes of m.find(hash): FindFaults stands for every outcome of
\* an access outside the table that is not followed (the call traps, or
\* reads further than the words of one group)
BoostFindOutcomes(hash) ==
  IF \A p \in Homes(hash) : p < Len(groups)
    THEN {boost_find(groups, hash, HomeOf(hash))}
  ELSE {FindFaults(find_info)}
         \cup {IF p < Len(groups) THEN boost_find(groups, hash, p)
                ELSE stray_find(groups,
                       group_of_words(
                         stray_view(groups, o, group_offset(hash))),
                       hash) :
                  p \in Homes(hash), o \in StrayReads(hash)}

\* the outcomes of m.insert(hash): InsertFaults stands for every outcome
\* of an access outside the table that is not followed
BoostInsertOutcomes(hash) ==
  IF \A p \in Homes(hash) : p < Len(groups)
    THEN {boost_insert(groups, hash, HomeOf(hash))}
  ELSE {InsertFaults(groups)}
         \cup {stray_insert(groups, o, group_offset(hash), hash,
                             p1 >= Len(groups), p2 >= Len(groups)) :
                  p1 \in Homes(hash), p2 \in Homes(hash),
                  o \in StrayReads(hash)}

\* m.insert(hash) on the boost_map
BoostDoInsert(hash) ==
  /\ ~undefined
  /\ \E r \in BoostInsertOutcomes(hash) :
       \/ /\ r.fault
          /\ undefined' = TRUE
          /\ UNCHANGED <<groups, hung, last, inserted, outside>>
       \/ /\ ~r.fault
          /\ (r.returns /\ ~HeldIn(r.table, hash) /\ hash \notin outside)
               => Cardinality(outside) < MaxOutside
          /\ groups' = r.table
          /\ hung' = ~r.returns
          /\ last' = IF r.returns THEN InsertCall(hash, r.ret) ELSE last
          /\ inserted' = IF r.returns /\ r.ret THEN inserted \cup {hash}
                         ELSE inserted
          /\ outside' = IF r.returns /\ ~HeldIn(r.table, hash)
                          THEN outside \cup {hash}
                        ELSE outside
          /\ undefined' = undefined
  /\ UNCHANGED <<variant, elements>>

\* m.insert(hash) on the abseil_map
AbseilDoInsert(hash) ==
  LET r == abseil_insert(elements, hash)
  IN  /\ elements' = r.table
      /\ hung' = ~r.returns
      /\ last' = IF r.returns THEN InsertCall(hash, r.ret) ELSE last
      /\ inserted' = IF r.returns /\ r.ret THEN inserted \cup {hash}
                     ELSE inserted
      /\ UNCHANGED <<variant, groups, outside, undefined>>

\* insert of the next key of a stream
BoostInsert ==
  /\ variant = "boost" /\ ~hung
  /\ \E s \in 1..Len(Streams) :
       /\ cursor[s] < Len(Streams[s])
       /\ BoostDoInsert(Streams[s][cursor[s] + 1])
       /\ cursor' = [cursor EXCEPT ![s] = cursor[s] + 1]
  /\ UNCHANGED <<prober_vars, driver_vars>>

AbseilInsert ==
  /\ variant = "abseil" /\ ~hung
  /\ \E s \in 1..Len(Streams) :
       /\ cursor[s] < Len(Streams[s])
       /\ AbseilDoInsert(Streams[s][cursor[s] + 1])
       /\ cursor' = [cursor EXCEPT ![s] = cursor[s] + 1]
  /\ UNCHANGED <<prober_vars, driver_vars>>

\* insert of a key that was handed to insert before
BoostInsertAgain ==
  /\ variant = "boost" /\ ~hung
  /\ \E hash \in ProbeKeys \cap Handed : BoostDoInsert(hash)
  /\ UNCHANGED <<cursor, prober_vars, driver_vars>>

AbseilInsertAgain ==
  /\ variant = "abseil" /\ ~hung
  /\ \E hash \in ProbeKeys \cap Handed : AbseilDoInsert(hash)
  /\ UNCHANGED <<cursor, prober_vars, driver_vars>>

\* m.find(hash) on the boost_map
BoostDoFind(hash) ==
  /\ ~undefined
  /\ \E r \in BoostFindOutcomes(hash) :
       \/ /\ r.fault
          /\ undefined' = TRUE
          /\ UNCHANGED <<hung, last>>
       \/ /\ ~r.fault
          /\ hung' = ~r.returns
          /\ last' = IF r.returns THEN FindCall(hash, r.found, r.info)
                     ELSE last
          /\ undefined' = undefined
  /\ UNCHANGED <<variant, groups, elements, inserted, outside>>

\* m.find(hash) on the abseil_map
AbseilDoFind(hash) ==
  LET r == abseil_find(elements, hash)
  IN  /\ hung' = ~r.returns
      /\ last' = IF r.returns THEN FindCall(hash, r.found, r.info) ELSE last
      /\ UNCHANGED <<variant, groups, elements, inserted, outside, undefined>>

\* find of a key
BoostFind ==
  /\ variant = "boost" /\ ~hung
  /\ \E hash \in ProbeKeys : BoostDoFind(hash)
  /\ UNCHANGED <<cursor, prober_vars, driver_vars>>

AbseilFind ==
  /\ variant = "abseil" /\ ~hung
  /\ \E hash \in ProbeKeys : AbseilDoFind(hash)
  /\ UNCHANGED <<cursor, prober_vars, driver_vars>>

Next ==
  \/ BoostInsert
  \/ BoostInsertAgain
  \/ BoostFind
  \/ AbseilInsert
  \/ AbseilInsertAgain
  \/ AbseilFind

Spec == MapInit /\ [][Next]_vars

----------------------------------------------------------------------------
(* One-group harness: a boost_map of capacity 1 is constructed, whose      *)
(* shift is 64, then insert and find are called on it in any order.        *)

OneGroupInit ==
  /\ ProberIdle
  /\ variant = "boost"
  /\ groups = boost_map(1)
  /\ elements = <<>>
  /\ cursor = [s \in 1..Len(BoostStreams(0)) |-> 0]
  /\ inserted = {}
  /\ last = NoCall
  /\ hung = FALSE
  /\ outside = {}
  /\ undefined = FALSE
  /\ row = RowIdle

OneGroupNext ==
  \/ BoostInsert
  \/ BoostInsertAgain
  \/ BoostFind

SpecOneGroup == OneGroupInit /\ [][OneGroupNext]_vars

----------------------------------------------------------------------------
(* What the table of the run stores, and what its operations return.       *)

\* hash is stored in the table
Stored(hash) ==
  IF variant = "boost"
    THEN \E g \in 1..Len(groups) :
           \E i \in 1..groups[g].n : groups[g].elements[i] = hash
    ELSE \E i \in 1..Len(elements) : elements[i] = some(hash)

RECURSIVE SumN(_, _)
SumN(gs, i) == IF i > Len(gs) THEN 0 ELSE gs[i].n + SumN(gs, i + 1)

\* the number of keys stored
NumStored ==
  IF variant = "boost" THEN SumN(groups, 1)
  ELSE Cardinality({i \in 1..Len(elements) : elements[i].has})

\* the number of slots: groups.size()*N, elements.size()
NumSlots ==
  IF variant = "boost" THEN Len(groups) * boost_N ELSE Len(elements)

\* the number of groups (boost_map) or of windows per offset (abseil_map)
Capacity ==
  IF variant = "boost" THEN Len(groups) ELSE Len(elements) \div abseil_N

\* the results m.find(hash) can have on the run's table
FindResults(hash) ==
  IF variant = "boost" THEN BoostFindOutcomes(hash)
  ELSE {abseil_find(elements, hash)}

\* the results m.insert(hash) can have on the run's table
InsertResults(hash) ==
  IF variant = "boost" THEN BoostInsertOutcomes(hash)
  ELSE {abseil_insert(elements, hash)}

\* the table itself
Table == IF variant = "boost" THEN groups ELSE elements

\* m.pr_group_full()
PrGroupFull ==
  IF variant = "boost" THEN boost_pr_group_full(groups)
  ELSE abseil_pr_group_full(elements)

\* fractions <<numerator, denominator>> with positive denominators
FracLeq(a, b) == a[1] * b[2] <= b[1] * a[2]

FracEq(a, b) == a[1] * b[2] = b[1] * a[2]

----------------------------------------------------------------------------
(* stats_row<Map>(capacity, lf), a step at a time: the population loop,    *)
(* the successful-lookup pass over the replayed stream and the             *)
(* unsuccessful-lookup pass over the stream of seed 1.                     *)

\* stats_row runs on tables of 2^1 .. 2^DriverLogCap groups
DriverLogCap == 1

\* the load factors are the multiples of 2^-LfLogSteps up to 0.875: these
\* are floats, and capacity*lf*N is computed on them without rounding
LfLogSteps == 2

\* std::size_t(capacity*lf*N) for lf = j / 2^LfLogSteps
row_size(capacity, j, N) == (capacity * j * N) \div Pow2(LfLogSteps)

\* What dist(gen) yields, call by call, from std::mt19937 gen(0) on: each
\* std::size_t is two successive 32-bit outputs of the generator, the first
\* the high half (0x8c7f0aac97c4aa2f, 0xb716a675d821ccc0, ...), as limbs.
Seed0Draws ==
  << <<43567, 38852, 2732, 35967>>,
     <<52416, 55329, 42613, 46870>>,
     <<21243, 56226, 45891, 39502>>,
     <<32103, 55525, 30403, 35709>>,
     <<57043, 40865, 41993, 27764>>,
     <<55026, 25190, 20757, 42329>>,
     <<14935, 19499, 46884, 28677>>,
     <<48600, 3716, 15430, 58443>>,
     <<52620, 17868, 39512, 63154>>,
     <<17089, 31304, 14650, 25129>>,
     <<18983, 53226, 32230, 51886>>,
     <<51374, 31455, 43095, 34661>>,
     <<35665, 25741, 24152, 37227>>,
     <<16921, 54793, 59045, 60659>>,
     <<38984, 22111, 27469, 4655>>,
     <<38804, 42478, 6921, 5710>>,
     <<5072, 24133, 2163, 1325>>,
     <<7877, 62728, 37619, 54566>>,
     <<1871, 9198, 18430, 50997>>,
     <<2496, 57022, 7599, 57017>>,
     <<24675, 31038, 47954, 64134>>,
     <<31921, 52488, 42968, 52373>>,
     <<797, 34110, 33523, 30243>>,
     <<3219, 44491, 49811, 51152>>,
     <<24999, 47227, 15246, 7751>>,
     <<16321, 38143, 56608, 41937>>,
     <<19129, 35217, 52489, 9394>>,
     <<41504, 49716, 53887, 61909>>,
     <<49866, 6940, 55839, 34199>>,
     <<57495, 31037, 18676, 27175>>,
     <<31230, 12211, 60067, 17337>>,
     <<43890, 48294, 11723, 50740>>,
     <<55324, 14191, 17591, 29894>>,
     <<43136, 8861, 58146, 37252>>,
     <<59300, 21242, 26752, 1231>>,
     <<6021, 9809, 23605, 40477>>,
     <<3560, 14570, 20006, 40114>>,
     <<61713, 25328, 25332, 40431>>,
     <<45444, 59152, 31055, 61849>>,
     <<60458, 29487, 50793, 44683>>,
     <<47647, 40177, 46522, 23560>>,
     <<20737, 59136, 21368, 28641>>,
     <<28647, 6506, 62785, 45719>>,
     <<26681, 63557, 61353, 3946>>,
     <<12134, 42804, 14627, 43697>>,
     <<47883, 11200, 60535, 43950>>,
     <<56402, 23471, 41390, 13787>>,
     <<63360, 49196, 20571, 8449>>,
     <<51811, 39834, 59790, 20671>>,
     <<19340, 21302, 9781, 23836>>,
     <<16298, 2518, 27257, 37368>>,
     <<51403, 41567, 12372, 28744>>,
     <<45830, 62845, 4420, 64774>>,
     <<17455, 42781, 39876, 6687>>,
     <<14324, 41619, 62079, 13688>>,
     <<62412, 65227, 38019, 10571>>,
     <<9396, 38132, 7012, 42802>>,
     <<3918, 27156, 47080, 16599>>,
     <<50836, 31109, 9359, 30560>>,
     <<23482, 40862, 44259, 16018>>,
     <<43727, 22151, 15127, 10418>>,
     <<37237, 44220, 35725, 7233>>,
     <<8752, 20788, 14165, 43013>>,
     <<42565, 51009, 62769, 9055>> >>

\* What dist(gen) yields, call by call, from gen.seed(1) on
Seed1Draws ==
  << <<33003, 65351, 62501, 27329>>,
     <<5192, 61116, 12172, 47207>>,
     <<50057, 8396, 32511, 7>>,
     <<7813, 65473, 43723, 19813>>,
     <<21440, 15472, 52047, 9617>>,
     <<20609, 25990, 32912, 6051>>,
     <<7751, 25422, 49100, 12206>>,
     <<31228, 43892, 43757, 22646>>,
     <<32025, 61311, 36230, 26002>>,
     <<54548, 55463, 58546, 35311>>,
     <<45413, 20530, 21758, 27472>>,
     <<51668, 34376, 35730, 44906>>,
     <<8444, 29062, 64395, 13398>>,
     <<37532, 15045, 19946, 57548>>,
     <<22926, 35023, 57245, 1794>>,
     <<27204, 59897, 49714, 43939>>,
     <<24535, 29963, 31959, 27348>>,
     <<17137, 28226, 19433, 36614>>,
     <<44510, 61546, 26103, 9200>>,
     <<33878, 51012, 51040, 12982>>,
     <<55273, 46921, 39053, 52477>>,
     <<33799, 52609, 64905, 63455>>,
     <<52029, 6081, 37183, 20540>>,
     <<42297, 33957, 3606, 45372>>,
     <<63360, 56689, 2561, 57435>>,
     <<63697, 54338, 61756, 58628>>,
     <<58072, 54368, 29960, 5573>>,
     <<39539, 17894, 32397, 2559>>,
     <<36842, 3882, 431, 11130>>,
     <<47560, 43943, 62073, 57549>>,
     <<9287, 38867, 16926, 6445>>,
     <<34246, 44017, 46467, 27597>>,
     <<60977, 26986, 16277, 62776>>,
     <<45571, 12946, 34105, 34941>>,
     <<11032, 18981, 56260, 45342>>,
     <<64555, 9313, 41457, 20677>>,
     <<19482, 51335, 34380, 44990>>,
     <<9552, 27036, 1844, 54698>>,
     <<29555, 2239, 35437, 1198>>,
     <<28114, 40896, 29993, 49161>>,
     <<27712, 43295, 15, 64806>>,
     <<12313, 19562, 51396, 49031>>,
     <<57058, 29237, 11631, 18379>>,
     <<10119, 14557, 13783, 51726>>,
     <<65177, 4807, 1306, 6765>>,
     <<1046, 30752, 9832, 29353>>,
     <<48835, 6302, 46857, 59545>>,
     <<17534, 59203, 19431, 19242>>,
     <<60797, 7830, 42263, 18859>>,
     <<16539, 34393, 36196, 8521>>,
     <<20793, 5480, 15269, 1269>>,
     <<27814, 60087, 10835, 44488>>,
     <<9504, 59667, 17032, 13869>>,
     <<44810, 19590, 56738, 17402>>,
     <<34447, 38298, 48407, 32215>>,
     <<40023, 37087, 10991, 3497>>,
     <<4039, 40235, 24345, 37625>>,
     <<34140, 62687, 243, 9616>>,
     <<33982, 17103, 47690, 38620>>,
     <<54176, 15139, 23854, 45859>>,
     <<5271, 34960, 38616, 6706>>,
     <<9537, 62255, 37559, 27135>>,
     <<10061, 32313, 13681, 45508>>,
     <<52096, 35428, 42755, 27143>> >>

\* the stream of std::mt19937 seeded with seed, as far as it is followed
mt19937(seed) == IF seed = 0 THEN Seed0Draws ELSE Seed1Draws

\* Mutant of gen_seed: the seed is set, the stream is not rewound
gen_seed_no_rewind(g, s) == [seed |-> s, k |-> g.k]

\* std::mt19937 gen(s), gen.seed(s): the generator of seed s, rewound
gen_seed(g, s) == [seed |-> s, k |-> 0]

\* dist(gen): the next draw of the generator's stream (no value where the
\* stream is not followed any further)
Draws ==
  IF row.gen.k < Len(mt19937(row.gen.seed))
    THEN {mt19937(row.gen.seed)[row.gen.k + 1]}
    ELSE {}

\* the row after dist(gen) yielded hash
Drawn(hash) == [row EXCEPT !.gen.k = @ + 1]

\* float(x)/size, and 0.f for a size of 0
mean(x, size) == IF size = 0 THEN <<0, 1>> ELSE <<x, size>>

DriverInit ==
  /\ ProberIdle
  /\ \E k \in 1..DriverLogCap, v \in {"boost", "abseil"},
        j \in 0..Pow2(LfLogSteps) :
       /\ 8 * j <= 7 * Pow2(LfLogSteps)
       /\ variant = v
       /\ groups = IF v = "boost" THEN boost_map(Pow2(k)) ELSE <<>>
       /\ elements = IF v = "abseil" THEN abseil_map(Pow2(k)) ELSE <<>>
       /\ row = [pc |-> "populate",
                 lf |-> <<j, Pow2(LfLogSteps)>>,
                 size |-> row_size(Pow2(k), j,
                                   IF v = "boost" THEN boost_N ELSE abseil_N),
                 n |-> 0,
                 gen |-> gen_seed([seed |-> 0, k |-> 0], 0),
                 info |-> find_info,
                 replay |-> <<>>,
                 out |-> <<>>]
  /\ cursor = <<>>
  /\ inserted = {}
  /\ last = NoCall
  /\ hung = FALSE
  /\ outside = {}
  /\ undefined = FALSE

\* one turn of for(n=0;n!=size;){ if(m.insert(dist(gen)))++n; }
Populate ==
  /\ row.pc = "populate" /\ ~hung
  /\ row.n # row.size
  /\ \E hash \in Draws :
       /\ IF variant = "boost" THEN BoostDoInsert(hash)
          ELSE AbseilDoInsert(hash)
       /\ row' = [Drawn(hash) EXCEPT
                    !.n = IF ~hung' /\ last'.ret THEN @ + 1 ELSE @]
  /\ UNCHANGED <<cursor, prober_vars>>

\* Mutant of PopulateDone: the generator is seeded with 1 for the pass
PopulateDone_seed_one ==
  /\ row.pc = "populate" /\ ~hung
  /\ row.n = row.size
  /\ row' = [row EXCEPT !.pc = "replay",
                        !.out = Append(Append(@, row.lf), PrGroupFull),
                        !.info = find_info,
                        !.gen = gen_seed(@, 1),
                        !.n = 0]
  /\ UNCHANGED <<map_vars, prober_vars>>

\* the loop is left; lf and pr_group_full() are printed; gen.seed(0)
PopulateDone ==
  /\ row.pc = "populate" /\ ~hung
  /\ row.n = row.size
  /\ row' = [row EXCEPT !.pc = "replay",
                        !.out = Append(Append(@, row.lf), PrGroupFull),
                        !.info = find_info,
                        !.gen = gen_seed(@, 0),
                        !.n = 0]
  /\ UNCHANGED <<map_vars, prober_vars>>

\* one turn of for(n=0;n!=size;++n){ info+=m.find(dist(gen)).first; }
Replay ==
  /\ row.pc = "replay" /\ ~hung
  /\ row.n # row.size
  /\ \E hash \in Draws :
       /\ IF variant = "boost" THEN BoostDoFind(hash) ELSE AbseilDoFind(hash)
       /\ row' = IF hung' THEN Drawn(hash)
                 ELSE [Drawn(hash) EXCEPT
                         !.info = find_info_add(@, last'.info),
                         !.replay = Append(@, last'),
                         !.n = @ + 1]
  /\ UNCHANGED <<cursor, prober_vars>>

\* the loop is left; the two means are printed; info={0,0}; gen.seed(1)
ReplayDone ==
  /\ row.pc = "replay" /\ ~hung
  /\ row.n = row.size
  /\ row' = [row EXCEPT !.pc = "miss",
                        !.out = Append(Append(@,
                                  mean(row.info.num_hops, row.size)),
                                  mean(row.info.num_cmps, row.size)),
                        !.info = find_info,
                        !.gen = gen_seed(@, 1),
                        !.n = 0]
  /\ UNCHANGED <<map_vars, prober_vars>>

\* one turn of for(n=0;n!=size;){ auto [i,b]=m.find(dist(gen));
\*                                if(!b){ info+=i; ++n; } }
Miss ==
  /\ row.pc = "miss" /\ ~hung
  /\ row.n # row.size
  /\ \E hash \in Draws :
       /\ IF variant = "boost" THEN BoostDoFind(hash) ELSE AbseilDoFind(hash)
       /\ row' = IF hung' \/ last'.ret THEN Drawn(hash)
                 ELSE [Drawn(hash) EXCEPT
                         !.info = find_info_add(@, last'.info),
                         !.n = @ + 1]
  /\ UNCHANGED <<cursor, prober_vars>>

\* the loop is left; the two means are printed; stats_row returns
MissDone ==
  /\ row.pc = "miss" /\ ~hung
  /\ row.n = row.size
  /\ row' = [row EXCEPT !.pc = "done",
                        !.out = Append(Append(@,
                                  mean(row.info.num_hops, row.size)),
                                  mean(row.info.num_cmps, row.size))]
  /\ UNCHANGED <<map_vars, prober_vars>>

DriverNext ==
  \/ Populate
  \/ PopulateDone
  \/ Replay
  \/ ReplayDone
  \/ Miss
  \/ MissDone

SpecDriver == DriverInit /\ [][DriverNext]_vars

\* The calls made on a table in any order, and the runs of stats_row
TableNext == row.pc = "idle" /\ Next

SpecCalls == (MapInit \/ DriverInit) /\ [][TableNext \/ DriverNext]_vars

----------------------------------------------------------------------------
(* Prober harness: a prober is constructed at some start index of a table  *)
(* of 2^k groups, and next(mask) is called on it repeatedly.               *)

\* table sizes 2^0 .. 2^MaxLogSize
MaxLogSize == 4

\* calls made past the end of the first cycle
ExtraSteps == 2

ProberMasks == {Pow2(k) - 1 : k \in 0..MaxLogSize}

ProberInit ==
  /\ pb_mask \in ProberMasks
  /\ \E p \in 0..Pow2(MaxLogSize) - 1 :
       /\ p <= pb_mask
       /\ pb = prober_init(p)
       /\ pb_seen = <<prober_get(prober_init(p))>>
  /\ pb_ret = TRUE
  /\ MapIdle

ProberStep ==
  /\ pb.step < pb_mask + ExtraSteps
  /\ pb' = prober_advance(pb, pb_mask)
  /\ pb_ret' = prober_next(pb, pb_mask)
  /\ pb_seen' = Append(pb_seen, prober_get(pb'))
  /\ UNCHANGED <<pb_mask, map_vars, driver_vars>>

ProberNextRel == ProberStep

SpecProber == ProberInit /\ [][ProberNextRel]_vars

----------------------------------------------------------------------------
(* C1: probe sequence is a permutation of 0..mask in its first mask+1      *)
(* positions.                                                              *)

\* the first mask+1 values of get(), or all of them while fewer were made
FirstCycle == SubSeq(pb_seen, 1, IF Len(pb_seen) <= pb_mask + 1
                                   THEN Len(pb_seen) ELSE pb_mask + 1)

\* C1: for every power-of-two size and every start index, the values get()
\* returns initially and after each of the first mask calls of next(mask)
\* are pairwise distinct and lie in 0..mask; once mask+1 values were
\* produced they are exactly 0..mask.
C1_ProbePermutation ==
  /\ \A i, j \in 1..Len(FirstCycle) :
       i # j => FirstCycle[i] # FirstCycle[j]
  /\ \A i \in 1..Len(FirstCycle) : FirstCycle[i] \in 0..pb_mask
  /\ Len(pb_seen) >= pb_mask + 1 =>
       {FirstCycle[i] : i \in 1..Len(FirstCycle)} = 0..pb_mask

\* a full cycle over a 16-group table was produced from a start index
\* other than 0
C1_Witness ==
  /\ pb_mask = 15
  /\ pb_seen[1] = 5
  /\ Len(pb_seen) = pb_mask + 1

----------------------------------------------------------------------------
(* C2, C3: a key whose insert returned true is found.                      *)

\* C2: in a boost_map of 2^k groups, after any sequence of insert calls
\* that all returned, find(k) of every key k for which an insert returned
\* true returns found=true with num_cmps >= 1 and num_hops >= 0, whatever
\* was inserted after k.
C2_BoostInsertedIsFound ==
  (variant = "boost" /\ ~hung) =>
    \A hash \in inserted :
      \A r \in FindResults(hash) :
        /\ r.returns
        /\ r.found
        /\ r.info.num_cmps >= 1
        /\ r.info.num_hops >= 0

\* find was called for a key that overflowed out of its full home group:
\* it went past the home group's overflow bit and found the key
C2_Witness ==
  /\ variant = "boost"
  /\ last.op = "find"
  /\ last.hash \in inserted
  /\ last.ret
  /\ last.info.num_hops >= 1
  /\ Cardinality(inserted) > boost_N + 2

\* C3: in an abseil_map of 2^k * 16 slots, after any sequence of insert
\* calls that all returned, find(k) of every key k for which an insert
\* returned true returns found=true with num_cmps >= 1 and num_hops >= 0,
\* whatever was inserted after k and at whatever offsets.
C3_AbseilInsertedIsFound ==
  (variant = "abseil" /\ ~hung) =>
    \A hash \in inserted :
      \A r \in FindResults(hash) :
        /\ r.returns
        /\ r.found
        /\ r.info.num_cmps >= 1
        /\ r.info.num_hops >= 0

\* find was called for a key that was pushed out of its first window, in
\* a table that also stores the keys of the stream whose window wraps
\* around the end of the array
C3_Witness ==
  /\ variant = "abseil"
  /\ last.op = "find"
  /\ last.hash \in inserted
  /\ last.ret
  /\ last.info.num_hops >= 1
  /\ elements[Len(elements)].has
  /\ SeqRange(AbseilStreamsOf[LogCap][2]) \subseteq inserted

----------------------------------------------------------------------------
(* C4: lookups in a freshly constructed table.                             *)

\* no call of insert was made yet
NoInsertYet == \A s \in DOMAIN cursor : cursor[s] = 0

\* C4: in a freshly constructed table of either variant, find(k) of every
\* key k returns found=false with num_hops = 0 and num_cmps = 0.
C4_FreshTableFindsNothing ==
  (variant # "none" /\ NoInsertYet) =>
    /\ \A hash \in AllKeys :
         \A r \in FindResults(hash) :
           /\ r.returns
           /\ ~r.found
           /\ r.info.num_hops = 0
           /\ r.info.num_cmps = 0
    /\ last.op = "find" => (~last.ret /\ last.info = [num_hops |-> 0, num_cmps |-> 0])

\* find was called on a freshly constructed abseil_map
C4_Witness ==
  /\ variant = "abseil"
  /\ NoInsertYet
  /\ last.op = "find"
  /\ NumStored = 0

----------------------------------------------------------------------------
(* C5: insert of a stored key.                                             *)

\* C5: in both variants insert(k) of a key k that is stored returns false
\* and leaves the table as it was (boost_map: every group's elements, n
\* and overflow; abseil_map: every slot), hence every result of find and
\* pr_group_full too.
C5_DuplicateInsertNoOp ==
  (variant # "none" /\ ~hung) =>
    /\ \A hash \in AllKeys :
         Stored(hash) =>
           \A r \in InsertResults(hash) :
             /\ r.returns
             /\ ~r.ret
             /\ r.table = Table
    /\ (last.op = "insert" /\ ~last.ret) => Stored(last.hash)

\* insert was called a second time for a key that sits in a group other
\* than its home group, and returned false
C5_Witness ==
  /\ variant = "boost"
  /\ last.op = "insert"
  /\ ~last.ret
  /\ Stored(last.hash)
  /\ \E r \in FindResults(last.hash) : r.info.num_hops >= 1

----------------------------------------------------------------------------
(* C6: lookups terminate at the load factors used.                         *)

\* the table holds at most 0.875 * C * N keys
WithinMaxLoad == 8 * NumStored <= 7 * NumSlots

\* C6: in every table reachable by inserts that holds at most 0.875*C*N
\* keys, find(k) of every key k, stored or not, returns, and does so
\* within the prober's first cycle: num_hops <= C - 1.
C6_FindTerminates ==
  (variant # "none" /\ WithinMaxLoad) =>
    \A hash \in AllKeys :
      \A r \in FindResults(hash) :
        /\ r.returns
        /\ r.info.num_hops <= Capacity - 1

\* a table filled exactly to the maximum load, in which the lookup of an
\* absent key went past a full group before it returned
C6_Witness ==
  /\ variant = "boost"
  /\ WithinMaxLoad
  /\ 8 * (NumStored + 1) > 7 * NumSlots
  /\ last.op = "find"
  /\ ~last.ret
  /\ last.info.num_hops >= 1

----------------------------------------------------------------------------
(* C7: pr_group_full never decreases.                                      *)

\* C7: across every call of insert (and of find) the value of
\* pr_group_full() after the call is at least the value before it.
C7_PrGroupFullMonotone ==
  [][variant # "none" => FracLeq(PrGroupFull, PrGroupFull')]_vars

\* an insert returned true and left two groups (or two windows) full
C7_Witness ==
  /\ variant # "none"
  /\ last.op = "insert"
  /\ last.ret
  /\ PrGroupFull[1] >= 2

----------------------------------------------------------------------------
(* C8: what boost_map::pr_group_full measures.                             *)

\* C8, the instance: in a boost_map of capacity 1, once 15 calls of insert
\* with distinct keys returned true pr_group_full() is 1.0, and it is below
\* 1.0 while fewer did.
C8_OneGroupFullAtFifteen ==
  (variant = "boost" /\ Capacity = 1) =>
    /\ Cardinality(inserted) >= boost_N => FracEq(PrGroupFull, <<1, 1>>)
    /\ Cardinality(inserted) < boost_N => ~FracLeq(<<1, 1>>, PrGroupFull)

\* C8, the general statement: pr_group_full() is the number of groups
\* whose n is 15 over the number of groups, and is 1.0 exactly when every
\* group holds 15 keys.
C8_FullGroupsOverGroups ==
  variant = "boost" =>
    /\ PrGroupFull =
         <<Cardinality({g \in 1..Len(groups) : groups[g].n = boost_N}),
           Len(groups)>>
    /\ FracEq(PrGroupFull, <<1, 1>>) <=>
         \A g \in 1..Len(groups) : groups[g].n = boost_N

----------------------------------------------------------------------------
(* C9: what abseil_map::pr_group_full measures.                            *)

\* the slot at position pos, positions wrapping around the end of the array
SlotTaken(pos) == elements[(pos % Len(elements)) + 1].has

\* the 16-slot window starting at position pos has no empty slot
WindowFull(pos) == \A j \in 0..(abseil_N - 1) : SlotTaken(pos + j)

\* C9 as claimed: pr_group_full() is the fraction of the capacity windows,
\* one per group, that have no empty slot.
C9_PerGroupWindows ==
  variant = "abseil" =>
    FracEq(abseil_pr_group_full(elements),
           <<Cardinality({g \in 0..(Capacity - 1) : WindowFull(g * abseil_N)}),
             Capacity>>)

\* C9 amended: pr_group_full() is the fraction of the capacity*16 windows
\* of 16 consecutive slots, one starting at every slot and wrapping
\* around the end of the array, that have no empty slot; the denominator
\* is elements.size() = capacity*16.
C9_EverySlotWindows ==
  variant = "abseil" =>
    abseil_pr_group_full(elements) =
      <<Cardinality({pos \in 0..(Len(elements) - 1) : WindowFull(pos)}),
        Capacity * abseil_N>>

\* a table of two groups in which a window is full that is no group's own
C9_Witness ==
  /\ variant = "abseil"
  /\ Capacity = 2
  /\ abseil_pr_group_full(elements)[1] >= 1
  /\ \A g \in 0..(Capacity - 1) : ~WindowFull(g * abseil_N)

----------------------------------------------------------------------------
(* C10: the successful-lookup pass of stats_row finds every key.           *)

\* C10: on every run of stats_row every call of find in the pass after
\* gen.seed(0) returns, and returns found=true; the pass makes size such
\* calls.  (The stream of seed 0 repeats no key in the draws a run makes,
\* so no run of the population phase draws a key again.)
C10_ReplayFindsAll ==
  row.pc # "idle" =>
    /\ ~hung
    /\ \A i \in 1..Len(row.replay) :
         /\ row.replay[i].op = "find"
         /\ row.replay[i].ret
    /\ row.pc \in {"miss", "done"} => Len(row.replay) = row.size

\* the pass was completed on a boost_map whose population phase put a key
\* into a group other than its home group
C10_Witness ==
  /\ row.pc = "miss"
  /\ variant = "boost"
  /\ row.size > boost_N
  /\ Len(row.replay) = row.size
  /\ \E i \in 1..Len(row.replay) : row.replay[i].info.num_hops >= 1

----------------------------------------------------------------------------
(* C11: which keys the successful-lookup pass of stats_row looks up.       *)

----------------------------------------------------------------------------
(* C12: what pow2_quadratic_prober::next returns.                          *)

\* C12 as claimed: next(mask) returns true exactly when the step counter,
\* after the increment, exceeds mask (the cycle over the mask+1 slots is
\* complete), and false on the calls before.
C12_TrueWhenExhausted ==
  pb.step >= 1 => (pb_ret <=> pb.step > pb_mask)

\* C12 amended: next(mask) returns true exactly while the step counter,
\* after the increment, is at most mask (positions of the cycle remain),
\* and false from the call on that makes the counter exceed mask.
C12_TrueWhileInCycle ==
  pb.step >= 1 => (pb_ret <=> pb.step <= pb_mask)

\* on a table of 16 groups the call that ends the cycle returned false,
\* the position being back in range
C12_Witness ==
  /\ pb_mask = 15
  /\ pb.step = pb_mask + 1
  /\ ~pb_ret
  /\ Len(pb_seen) = pb_mask + 2

----------------------------------------------------------------------------
(* C13: what num_hops counts.                                              *)

\* the position get() yields after j calls of next(mask) on a prober
\* constructed at start
RECURSIVE ProbeAt(_, _, _)
ProbeAt(start, mask, j) ==
  IF j = 0 THEN prober_init(start)
  ELSE prober_advance(ProbeAt(start, mask, j - 1), mask)

\* a lookup of hash ends at group g of a boost_map: g holds hash, or the
\* overflow bit of hash is unset in g
BoostEndsAt(g, hash) ==
  \/ \E i \in 1..g.n : g.elements[i] = hash
  \/ (g.overflow \div overflow_bit(hash)) % 2 = 0

\* a lookup of hash ends at the window of an abseil_map that starts at
\* pos0: the window holds hash, or has an empty slot
AbseilEndsAt(es, pos0, hash) ==
  \E q \in pos0..(pos0 + abseil_N - 1) :
    element_at(es, q) = some(hash) \/ ~element_at(es, q).has

\* the places in hash's probe sequence, counted from 0, at which a lookup
\* of hash ends
EndPlaces(hash) ==
  IF variant = "boost"
    THEN {j \in 0..(Len(groups) - 1) :
            BoostEndsAt(
              groups[prober_get(ProbeAt(HomeOf(hash), Len(groups) - 1, j)) + 1],
              hash)}
    ELSE LET pos == abseil_position_for(elements, hash)
             mask == Len(elements) \div abseil_N - 1
         IN  {j \in 0..mask :
                AbseilEndsAt(elements,
                  prober_get(ProbeAt(pos \div abseil_N, mask, j)) * abseil_N
                    + (pos % abseil_N),
                  hash)}

\* the number of groups or windows a lookup of hash that returns visits
Visited(hash) ==
  1 + CHOOSE j \in EndPlaces(hash) : \A i \in EndPlaces(hash) : j <= i

\* C13 as claimed: the num_hops a find returns is the number of groups
\* (boost_map) or windows (abseil_map) the lookup visited.
C13_HopsAreVisits ==
  (variant # "none" /\ ~hung) =>
    \A hash \in ProbeKeys :
      \A r \in FindResults(hash) :
        r.returns => r.info.num_hops = Visited(hash)

\* C13 amended: the num_hops a find returns is the number of groups or
\* windows the lookup visited less one: the home group or window is not
\* counted, every further one is.
C13_HopsAreAdvances ==
  (variant # "none" /\ ~hung) =>
    /\ \A hash \in ProbeKeys :
         \A r \in FindResults(hash) :
           r.returns => r.info.num_hops = Visited(hash) - 1
    /\ last.op = "find" => last.info.num_hops = Visited(last.hash) - 1

\* a lookup of an absent key returned found=false from the second
\* window of an abseil_map, with one hop
C13_Witness ==
  /\ variant = "abseil"
  /\ last.op = "find"
  /\ ~last.ret
  /\ Visited(last.hash) = 2
  /\ last.info.num_hops = 1

----------------------------------------------------------------------------
(* C14: what abseil_map::find adds to num_cmps.                            *)

\* the slot at position q is occupied and its low 7 bits are those of hash
TagMatch(es, q, hash) ==
  /\ element_at(es, q).has
  /\ WordAndNat(element_at(es, q).val, 127) = WordAndNat(hash, 127)

\* the positions of the window at pos0 that hold hash, and its empty ones
MatchesIn(es, pos0, hash) ==
  {q \in pos0..(pos0 + abseil_N - 1) : element_at(es, q) = some(hash)}

EmptiesIn(es, pos0) ==
  {q \in pos0..(pos0 + abseil_N - 1) : ~element_at(es, q).has}

\* the least of a set of positions S, or the window's end if S is empty
FirstOf(S, pos0) ==
  IF S = {} THEN pos0 + abseil_N ELSE CHOOSE q \in S : \A x \in S : q <= x

\* the start of the j-th window, counted from 0, of hash's probe sequence
WindowOf(es, hash, j) ==
  LET pos == abseil_position_for(es, hash)
  IN  prober_get(ProbeAt(pos \div abseil_N, Len(es) \div abseil_N - 1, j))
        * abseil_N + (pos % abseil_N)

\* comparisons in the window at pos0: the tag matches before the exact
\* match or, without one, in all 16 slots, empty slots between them or
\* not, and one more for an exact match
CmpsUntilMatch(es, pos0, hash) ==
  LET m == FirstOf(MatchesIn(es, pos0, hash), pos0)
  IN  Cardinality({q \in pos0..(m - 1) : TagMatch(es, q, hash)})
        + (IF MatchesIn(es, pos0, hash) # {} THEN 1 ELSE 0)

RECURSIVE SumCmpsUntilMatch(_, _, _)
SumCmpsUntilMatch(es, hash, j) ==
  IF j < 0 THEN 0
  ELSE CmpsUntilMatch(es, WindowOf(es, hash, j), hash)
         + SumCmpsUntilMatch(es, hash, j - 1)

\* info.num_cmps+=...: the sum of f[0], ..., f[j]
RECURSIVE SumOver(_, _)
SumOver(f, j) == IF j < 0 THEN 0 ELSE f[j] + SumOver(f, j - 1)

\* C14 as claimed: over the windows a lookup visits, find adds to
\* num_cmps the tag matches that lie before the exact match or the first
\* empty slot of the window, whichever comes first, and one more for an
\* exact match.
C14_CmpsStopAtEmpty ==
  (variant = "abseil" /\ ~hung) =>
    \A hash \in ProbeKeys :
      LET r == abseil_find(elements, hash)
          claimed ==
            [t \in 0..(Visited(hash) - 1) |->
               LET pos0 == WindowOf(elements, hash, t)
                   m == FirstOf(MatchesIn(elements, pos0, hash), pos0)
                   e == FirstOf(EmptiesIn(elements, pos0), pos0)
                   stop == IF m <= e THEN m ELSE e
               IN  Cardinality({q \in pos0..(stop - 1) :
                                  TagMatch(elements, q, hash)})
                     + (IF MatchesIn(elements, pos0, hash) # {} THEN 1 ELSE 0)]
      IN  r.returns =>
            r.info.num_cmps = SumOver(claimed, Visited(hash) - 1)

\* C14 amended: over the windows a lookup visits, find adds to num_cmps
\* the tag matches that lie before the exact match or, in a window
\* without one, anywhere in its 16 slots, also behind an empty slot, and
\* one more for an exact match.
C14_CmpsOverWindow ==
  (variant = "abseil" /\ ~hung) =>
    \A hash \in ProbeKeys :
      LET r == abseil_find(elements, hash)
      IN  r.returns =>
            r.info.num_cmps
              = SumCmpsUntilMatch(elements, hash, Visited(hash) - 1)

\* a lookup of an absent key counted a key that lies behind the first
\* empty slot of the window it ended in
C14_Witness ==
  /\ variant = "abseil"
  /\ last.op = "find"
  /\ ~last.ret
  /\ last.info.num_cmps >= 1
  /\ LET pos0 == WindowOf(elements, last.hash, Visited(last.hash) - 1)
     IN  \E q \in pos0..(pos0 + abseil_N - 1) :
           /\ TagMatch(elements, q, last.hash)
           /\ q > FirstOf(EmptiesIn(elements, pos0), pos0)

----------------
(* C15: the groups before a stored key in its probe sequence.              *)

\* the place, counted from 0, of group index gi in hash's probe sequence
PlaceOf(hash, gi) ==
  CHOOSE j \in 0..(Len(groups) - 1) :
    prober_get(ProbeAt(HomeOf(hash), Len(groups) - 1, j)) = gi

\* the group at place t of hash's probe sequence
GroupAt(hash, t) ==
  groups[prober_get(ProbeAt(HomeOf(hash), Len(groups) - 1, t)) + 1]

\* bit (hash mod 8) of the overflow byte of g is set
MarkedFor(g, hash) == (g.overflow \div Pow2(hash[1] % 8)) % 2 = 1

\* C15: in every boost_map reachable by inserts, for every stored key k,
\* every group that comes before k's group in k's probe sequence is full
\* and has overflow bit (k mod 8) set.
C15_EarlierGroupsFullAndMarked ==
  variant = "boost" =>
    \A gi \in 0..(Len(groups) - 1) :
      \A i \in 1..groups[gi + 1].n :
        LET k == groups[gi + 1].elements[i]
        IN  \A t \in 0..(PlaceOf(k, gi) - 1) :
              /\ GroupAt(k, t).n = boost_N
              /\ MarkedFor(GroupAt(k, t), k)

\* a key is stored two groups away from its home group
C15_Witness ==
  /\ variant = "boost"
  /\ \E gi \in 0..(Len(groups) - 1) :
       \E i \in 1..groups[gi + 1].n :
         PlaceOf(groups[gi + 1].elements[i], gi) >= 2

----------------------------------------------------------------------------
(* C16: the overflow bytes of a boost_map only gain bits.                  *)

\* bit b of the overflow byte x is set
BitSet(x, b) == (x \div Pow2(b)) % 2 = 1

\* C16: a group of a boost_map with fewer than 15 keys has overflow = 0;
\* across every call a bit that is set stays set; a call of find, and an
\* insert of a stored key, changes no overflow byte; an insert sets no
\* bit but bit (key mod 8), and that only on groups that are full when
\* the call begins.
C16_MarkersMonotone ==
  /\ [](variant = "boost" =>
          \A g \in 1..Len(groups) :
            groups[g].n < boost_N => groups[g].overflow = 0)
  /\ [][variant = "boost" =>
          \A g \in 1..Len(groups) :
            /\ \A b \in 0..7 :
                 /\ BitSet(groups[g].overflow, b)
                      => BitSet(groups'[g].overflow, b)
                 /\ (BitSet(groups'[g].overflow, b)
                       /\ ~BitSet(groups[g].overflow, b))
                      => /\ groups[g].n = boost_N
                         /\ \E s \in 1..Len(cursor) :
                              /\ cursor'[s] = cursor[s] + 1
                              /\ b = Streams[s][cursor'[s]][1] % 8
            /\ cursor' = cursor
                 => groups'[g].overflow = groups[g].overflow]_vars

\* two bits are set in the overflow byte of a full group, and the last
\* call was a find
C16_Witness ==
  /\ variant = "boost"
  /\ last.op = "find"
  /\ \E g \in 1..Len(groups) :
       /\ groups[g].n = boost_N
       /\ \E b, c \in 0..7 :
            /\ b # c
            /\ BitSet(groups[g].overflow, b)
            /\ BitSet(groups[g].overflow, c)

----------------------------------------------------------------------------
(* C17: insert of a new key into a table with room.                        *)

\* the places, counted from 0, of hash's probe sequence whose group
\* (boost_map) or window (abseil_map) has room
RoomPlaces(hash) ==
  IF variant = "boost"
    THEN {t \in 0..(Len(groups) - 1) : GroupAt(hash, t).n < boost_N}
    ELSE {t \in 0..(Len(elements) \div abseil_N - 1) :
            EmptiesIn(elements, WindowOf(elements, hash, t)) # {}}

\* the first place with room
FirstRoom(hash) ==
  CHOOSE t \in RoomPlaces(hash) : \A u \in RoomPlaces(hash) : t <= u

\* the table after hash is stored at the first place with room: appended
\* at index n of the group, or put in the first empty slot of the window
PlacedAtFirstRoom(hash) ==
  IF variant = "boost"
    THEN LET gi == prober_get(
                     ProbeAt(HomeOf(hash), Len(groups) - 1, FirstRoom(hash))) + 1
         IN  /\ groups'[gi].n = groups[gi].n + 1
             /\ groups'[gi].elements =
                  [groups[gi].elements EXCEPT ![groups[gi].n + 1] = hash]
             /\ \A g \in 1..Len(groups) :
                  g # gi => /\ groups'[g].n = groups[g].n
                            /\ groups'[g].elements = groups[g].elements
    ELSE LET pos0 == WindowOf(elements, hash, FirstRoom(hash))
             q    == FirstOf(EmptiesIn(elements, pos0), pos0)
         IN  elements' =
               [elements EXCEPT ![element_index(elements, q)] = some(hash)]

\* C17: when a key that is not stored is handed to insert and the table
\* has an empty slot, the call returns true within one cycle of the
\* prober (at most Capacity groups or windows probed) and the key is
\* stored at the first place of its probe sequence that has room.
C17_InsertFindsRoom ==
  [][\A s \in 1..Len(cursor) :
       (/\ variant # "none"
        /\ cursor'[s] = cursor[s] + 1
        /\ ~Stored(Streams[s][cursor'[s]])
        /\ NumStored < NumSlots)
         => /\ ~hung'
            /\ last' = InsertCall(Streams[s][cursor'[s]], TRUE)
            /\ RoomPlaces(Streams[s][cursor'[s]]) # {}
            /\ PlacedAtFirstRoom(Streams[s][cursor'[s]])]_vars

\* the last insert stored its key in an abseil_map that had keys already,
\* outside the first window of the key's probe sequence
C17_Witness ==
  /\ variant = "abseil"
  /\ last.op = "insert" /\ last.ret
  /\ Stored(last.hash)
  /\ NumStored > abseil_N
  /\ MatchesIn(elements, WindowOf(elements, last.hash, 0), last.hash) = {}

----------------------------------------------------------------------------
(* C18: insert into a full table.                                          *)

\* the keys the table stores, slot by slot
Contents ==
  IF variant = "boost"
    THEN [g \in 1..Len(groups) |-> <<groups[g].n, groups[g].elements>>]
    ELSE [i \in 1..Len(elements) |-> elements[i]]

\* C18: when a key that is not stored is handed to insert and every slot
\* of the table is taken, the call does not return: the run ends there,
\* no result is recorded, no later call is made, the stored keys are as
\* before, and in a boost_map every group has the key's overflow bit set.
\* Every insert
\* that does return has stored its key (true) or found it stored (false):
\* no call returns because the table is full.
C18_FullTableInsertNeverReturns ==
  /\ [][\A s \in 1..Len(cursor) :
          (/\ variant # "none"
           /\ cursor'[s] = cursor[s] + 1
           /\ ~Stored(Streams[s][cursor'[s]])
           /\ NumStored = NumSlots)
            => /\ hung'
               /\ last' = last
               /\ Contents' = Contents
               /\ (variant = "boost" =>
                     \A g \in 1..Len(groups) :
                       MarkedFor(groups'[g], Streams[s][cursor'[s]]))]_vars
  /\ [][~hung]_vars
  /\ [](last.op = "insert" => Stored(last.hash))

\* a call of insert on a full boost_map that did not return and set an
\* overflow bit on every group
C18_Witness ==
  /\ variant = "boost"
  /\ hung
  /\ NumStored = NumSlots
  /\ \E s \in 1..Len(cursor) :
       /\ cursor[s] >= 1
       /\ ~Stored(Streams[s][cursor[s]])
       /\ \A g \in 1..Len(groups) : MarkedFor(groups[g], Streams[s][cursor[s]])

\* the same on an abseil_map
C18_WitnessAbseil ==
  /\ variant = "abseil"
  /\ hung
  /\ NumStored = NumSlots
  /\ \E s \in 1..Len(cursor) :
       cursor[s] >= 1 /\ ~Stored(Streams[s][cursor[s]])

----------------------------------------------------------------------------
(* C19: every successful insert takes one slot, and no key takes two.      *)

\* the taken slots of the table: <<group, index>> or <<position>>
TakenSlots ==
  IF variant = "boost"
    THEN {<<g, i>> : g \in 1..Len(groups), i \in 1..boost_N}
           \cap {x \in (1..Len(groups)) \X (1..boost_N) : x[2] <= groups[x[1]].n}
    ELSE {<<i>> : i \in {j \in 1..Len(elements) : elements[j].has}}

\* the key in a taken slot
KeyIn(x) ==
  IF variant = "boost" THEN groups[x[1]].elements[x[2]] ELSE elements[x[1]].val

\* a step is a call of insert that returned true
InsertReturnedTrue ==
  /\ ~hung'
  /\ last'.op = "insert"
  /\ last'.ret
  /\ last' # last \/ cursor' # cursor

\* C19: whatever calls are made on a table, and in every run of stats_row,
\* no key is in two slots, a call of insert that returns true takes one
\* slot more and no other step changes the number of taken slots, the
\* keys in the taken slots are those insert returned true for, the count n
\* of the population loop is the number of taken slots, and once that
\* loop is left exactly size distinct keys are stored.
C19_ElementConservation ==
  /\ [](variant # "none" =>
         /\ \A x, y \in TakenSlots : KeyIn(x) = KeyIn(y) => x = y
         /\ {KeyIn(x) : x \in TakenSlots} = inserted
         /\ row.pc = "populate" => Cardinality(TakenSlots) = row.n
         /\ row.pc \in {"replay", "miss", "done"} =>
              /\ Cardinality(TakenSlots) = row.size
              /\ Cardinality({KeyIn(x) : x \in TakenSlots}) = row.size)
  /\ [][variant # "none" =>
          Cardinality(TakenSlots') =
            Cardinality(TakenSlots) + (IF InsertReturnedTrue THEN 1 ELSE 0)]_vars

\* insert was called on a stored key of a table that holds several keys:
\* it returned false and the key is in one slot
C19_Witness ==
  /\ variant # "none"
  /\ last.op = "insert"
  /\ ~last.ret
  /\ Cardinality(TakenSlots) >= 2
  /\ Cardinality({x \in TakenSlots : KeyIn(x) = last.hash}) = 1

----------------------------------------------------------------------------
(* C20: the home group of a key in a boost_map.                            *)

\* C20 as claimed: in a boost_map of any power-of-two number of groups,
\* the one group of capacity 1 included, position_for(key) is less than
\* the number of groups for every key, and no call of find or insert
\* reads or writes a group outside the table.
C20_HomeInRange ==
  variant = "boost" =>
    \A hash \in AllKeys :
      /\ \A p \in Homes(hash) : p < Len(groups)
      /\ \A r \in FindResults(hash) : ~r.fault
      /\ \A r \in InsertResults(hash) : ~r.fault

====
